---- MODULE Spec2Model ----
(***************************************************************************)
(* Model of the middleware engine of request-middleware:                   *)
(*   - composeMiddlewares (src/src/engine/compose.ts): the onion-model     *)
(*     dispatcher with its currentIndex guard;                             *)
(*   - MiddlewareEngine (src/unnamed/part_001): the registry, use(),       *)
(*     getMiddlewares() and dispatch().                                    *)
(*                                                                         *)
(* JavaScript is single threaded.  A call runs synchronously until the     *)
(* callee suspends at an await; `stack` is the synchronous call stack.     *)
(* While the stack is not empty only its top frame moves.  When it is      *)
(* empty, a suspended frame whose awaited promise has settled may resume,  *)
(* and the environment (the code that owns the engine) may call use() or   *)
(* dispatch().  dispatch(index) and the middleware it awaits settle        *)
(* together, so the two are one frame of the model.                        *)
(***************************************************************************)
EXTENDS Integers, Sequences, FiniteSets, TLC

\* ------------------------------------------------------------- bounds
\* Longest handler array given to one composed chain in SpecCompose.
MaxChain == 3
\* Longest initial handler sequence given to the Engine constructor.
MaxSeed == 1
\* use() is not called by the environment once the registry is this long.
MaxReg == 2
\* Longest extraMiddlewares array of one Engine.dispatch call in Spec.
MaxExtra == 1
\* Number of Engine.dispatch calls of one behaviour in Spec.
MaxDispatch == 2
\* Number of getMiddlewares() calls of one behaviour in SpecOwner.
MaxGot == 2
\* Number of Engine.dispatch calls of one behaviour in SpecOwner.
MaxOwnerDispatch == 1
\* Number of writes of the caller into its options.middlewares array in
\* SpecOptions.
MaxWrites == 2

\* ------------------------------------------------- handlers (inputs)
\* A handler is named by what its body does; Script gives the body.
\* NotFn stands for any value that is not a function.
NotFn == "notfn"
\* NotArray stands for any value that is not an array.
NotArray == "notarray"

\* Handlers of the behaviours of Spec (the Engine with concurrent calls).
EngineKinds == {"slow", "reg"}

\* Handlers of the behaviours of SpecCompose (one chain, any handler).
ComposeKinds ==
  {"std", "nonext", "throw", "twice", "detach", "prev", "catch", "retry", "cleanup"}

\* The optional finalHandler: absent, one that awaits the transport and
\* returns, one that throws.
Finals == {"none", "ok", "fail"}

\* The body of a handler after its 'before' code, one operation per step:
\*   next     await next()
\*   nextNA   next() without awaiting the returned promise
\*   tryNext  try { await next() } catch (e) { remember e }
\*   prev     await the continuation handed to the previous position
\*   retry    if an error was caught: await next() again
\*   cleanup  if an error was caught: throw a new error
\*   work     await asynchronous work of the handler's own
\*   use      engine.use(a standard handler)
\*   throw    throw a new error
\*   post     the 'after' code
Script(h) ==
  CASE h = "std"     -> <<"next", "post">>
    [] h = "slow"    -> <<"work", "next", "post">>
    [] h = "reg"     -> <<"use", "next", "post">>
    [] h = "nonext"  -> <<"post">>
    [] h = "throw"   -> <<"throw">>
    [] h = "twice"   -> <<"next", "next", "post">>
    [] h = "detach"  -> <<"nextNA", "post">>
    [] h = "prev"    -> <<"prev", "next", "post">>
    [] h = "catch"   -> <<"tryNext", "post">>
    [] h = "retry"   -> <<"tryNext", "retry", "post">>
    [] h = "cleanup" -> <<"tryNext", "cleanup", "post">>
    [] h = "f_ok"    -> <<"work">>
    [] h = "f_fail"  -> <<"throw">>
    [] OTHER         -> <<>>

\* Sequences over S of length at most n.
SeqUpTo(S, n) == UNION {[1..k -> S] : k \in 0..n}

\* ------------------------------------------------------------- state
VARIABLES
  registry,   \* MiddlewareEngine.middlewares
  live,       \* per execution: the chain is the registry array itself
  arr,        \* per execution: the chain array when it is a fresh array
  fin,        \* per execution: the finalHandler
  cur,        \* per execution: currentIndex of composed
  frames,     \* per execution: the dispatch(index) calls that passed the guard
  top,        \* per execution: the promise returned by Engine.dispatch
  stack,      \* the synchronous call stack: <<execution, index>>
  added,      \* history: the constructor's handlers, then those of use()
  snap,       \* history: the registry as it was when the execution began
  given,      \* history: the array given to the call: the extraMiddlewares,
              \* or the argument of composeMiddlewares (<<NotArray>> when
              \* that is not an array)
  log,        \* history: per execution, what ran, in order
  errlog,     \* history: per execution, errors raised and caught, in order
  ctx,        \* per execution: the context object given by the caller
  got,        \* the arrays getMiddlewares() returned to the owner
  lastUse,    \* the latest call of use(): its argument and what it threw
  opts,       \* options.middlewares, the array the constructor was given
  req         \* the fetch adapter and the request() call it serves

vars ==
  <<registry, live, arr, fin, cur, frames, top, stack, added, snap, given, log,
    errlog, ctx, got, lastUse, opts, req>>

\* An error object is <<kind, index, serial>>: who threw, at which position,
\* and how many errors the execution had raised before (two throws never
\* give the same object).
NoErr == <<"none", 0, 0>>
NewErr(kind, index, el) == <<kind, index, Len(el)>>
InvalidErr == <<"invalid", 0, 0>>
NotArrayErr == <<"notarray", 0, 0>>

\* What a frame awaits.
NoAwait == [k |-> "none", j |-> 0, e |-> NoErr]
AwaitWork == [k |-> "work", j |-> 0, e |-> NoErr]
AwaitFrame(index) == [k |-> "frame", j |-> index, e |-> NoErr]
AwaitRejected(err) == [k |-> "rej", j |-> 0, e |-> err]

Execs == 1..Len(top)

\* The array composed reads: middlewares of composeMiddlewares.
Chain(d) == IF live[d] THEN registry ELSE arr[d]

Frame(d, index) == frames[d][index + 1]
HasFrame(d, index) == index >= 0 /\ index + 1 <= Len(frames[d])
Settled(f) == f.st \in {"done", "fail"}

NewFrame(h, st) ==
  [h |-> h, pc |-> 1, st |-> st, aw |-> NoAwait, err |-> NoErr, caught |-> NoErr]

PutFrame(fs, index, f) ==
  IF index + 1 <= Len(fs) THEN [fs EXCEPT ![index + 1] = f] ELSE Append(fs, f)

Pop(s) == SubSeq(s, 1, Len(s) - 1)

Top == stack[Len(stack)]
OpAt(f) == IF f.pc <= Len(Script(f.h)) THEN Script(f.h)[f.pc] ELSE "ret"
FinalKind(fh) == IF fh = "ok" THEN "f_ok" ELSE "f_fail"
IsHandler(h) == h \notin {"f_ok", "f_fail", "f_none", "missing"}

\* ------------------------------------------------ composeMiddlewares
\* Faulty variant: the elements are not looked at when the chain is composed.
ValidChainUnchecked(ms) == TRUE

\* Validation at composition time: every element is a function.
ValidChain(ms) == \A k \in 1..Len(ms) : ms[k] # NotFn

\* The TypeError of composeMiddlewares(ms, ...), NoErr when it composes;
\* isArr tells whether the argument is an array at all.
ComposeError(isArr, ms) ==
  IF ~isArr THEN NotArrayErr
  ELSE IF ~ValidChain(ms) THEN InvalidErr
  ELSE NoErr

\* Faulty variant: every handler is handed a copy of its own of the context.
CtxCloned(index) == index + 1

\* The object dispatch hands to the handler at a position; 0 is the object
\* the caller gave to composed.
CtxArg(index) == 0

\* Handler code writes w into the object ref it was handed; cx is the
\* caller's object, which sees the writes made to object 0 only.
WriteCtx(cx, ref, w) == IF ref = 0 THEN Append(cx, w) ELSE cx

\* Faulty variant: no guard, every call of a continuation goes on.
GuardNever(index, currentIndex) == TRUE

\* Faulty variant: the guard compares with < where the code has <=.
GuardWeak(index, currentIndex) == ~(index < currentIndex)

\* The guard of dispatch: the call goes on only above currentIndex.
GuardPasses(index, currentIndex) == ~(index <= currentIndex)

\* Faulty variant: the finalHandler is never called.
HasFinalNever(fh) == FALSE

\* if (finalHandler): one was given to composeMiddlewares.
HasFinal(fh) == fh # "none"

\* One call of dispatch(index) of execution d, up to the point where the
\* callee's body starts: c is currentIndex, ch the middlewares array, fh
\* the finalHandler, fs/lg/el/stk the frames, logs and stack of the caller.
\* prom is the promise the call returns.
Advance(d, index, c, ch, fh, fs, lg, el, stk) ==
  IF ~GuardPasses(index, c)
  THEN [cur |-> c, fr |-> fs, stack |-> stk,
        log |-> Append(lg, <<"dup", index>>),
        errlog |-> Append(el, <<"raise", NewErr("proto", index, el)>>),
        prom |-> AwaitRejected(NewErr("proto", index, el))]
  ELSE IF index = Len(ch)
  THEN IF ~HasFinal(fh)
       THEN [cur |-> index, fr |-> PutFrame(fs, index, NewFrame("f_none", "done")),
             stack |-> stk, log |-> Append(lg, <<"adv", index>>), errlog |-> el,
             prom |-> AwaitFrame(index)]
       ELSE [cur |-> index,
             fr |-> PutFrame(fs, index, NewFrame(FinalKind(fh), "run")),
             stack |-> Append(stk, <<d, index>>),
             log |-> Append(Append(lg, <<"adv", index>>), <<"final", index>>),
             errlog |-> el, prom |-> AwaitFrame(index)]
  ELSE IF index > Len(ch)
  THEN [cur |-> index, fr |-> PutFrame(fs, index, NewFrame("missing", "done")),
        stack |-> stk, log |-> Append(lg, <<"adv", index>>), errlog |-> el,
        prom |-> AwaitFrame(index)]
  ELSE [cur |-> index,
        fr |-> PutFrame(fs, index, NewFrame(ch[index + 1], "run")),
        stack |-> Append(stk, <<d, index>>),
        log |-> Append(Append(lg, <<"adv", index>>), <<"pre", index>>),
        errlog |-> el, prom |-> AwaitFrame(index)]

\* The caller's context after the call r of dispatch(index) made on stack
\* stk: when the call started a body, that body's 'before' code wrote into
\* the context it was handed; the finalHandler is a closure of the caller
\* and writes into the caller's object.
BeforeWrite(cx, r, stk, index, ch) ==
  IF r.stack = stk THEN cx
  ELSE IF index = Len(ch) THEN WriteCtx(cx, 0, <<"final", index>>)
  ELSE WriteCtx(cx, CtxArg(index), <<"pre", index>>)

\* Faulty variant: the rejection is wrapped in a new error.
SettleWrapped(f) ==
  IF f.st = "fail"
  THEN [st |-> "rejected", err |-> <<"wrapped", 0, 0>>]
  ELSE [st |-> "resolved", err |-> NoErr]

\* Faulty variant: the rejection of dispatch(0) is dropped.
SettleResolved(f) == [st |-> "resolved", err |-> NoErr]

\* How the promise of composed (and of Engine.dispatch, which awaits it)
\* settles from the settled dispatch(0).
SettleTop(f) ==
  IF f.st = "fail"
  THEN [st |-> "rejected", err |-> f.err]
  ELSE [st |-> "resolved", err |-> NoErr]

\* ---------------------------------------------------- MiddlewareEngine
\* Faulty variant: the extra handlers are put before the registered ones.
ExtrasFirst(has, ex) == IF has THEN ex \o registry ELSE registry

\* The array handed to composeMiddlewares by Engine.dispatch.
AllMiddlewares(has, ex) == IF has THEN registry \o ex ELSE registry

\* Faulty variant: the extra handlers are pushed onto this.middlewares.
ExtrasPersisted(has, ex) == IF has THEN registry \o ex ELSE registry

\* this.middlewares after Engine.dispatch built the chain.
RegistryAfterDispatch(has, ex) == registry

\* Faulty variant: the elements are shifted out of the array as they are
\* validated.
AfterComposeDrained(ms) == <<>>

\* The array given to composeMiddlewares once it has been composed: the
\* validation loop and dispatch read its elements and its length only.
AfterCompose(ms) == ms

\* composeMiddlewares(ms, fh)(ctx) up to the first suspension of composed.
\* isLive tells that ms is the registry array itself; failed is how a
\* TypeError of the composition reaches the caller: "thrown" out of a
\* direct call, "rejected" out of the async Engine.dispatch.
Run(isArr, ms, isLive, fh, failed) ==
  LET d == Len(top) + 1
      r == Advance(d, 0, -1, ms, fh, <<>>, <<>>, <<>>, stack)
      e == ComposeError(isArr, ms)
  IN /\ stack = <<>>
     /\ live' = Append(live, isLive)
     /\ arr' = Append(arr, IF isLive THEN <<>> ELSE AfterCompose(ms))
     /\ fin' = Append(fin, fh)
     /\ IF e = NoErr
        THEN /\ cur' = Append(cur, r.cur)
             /\ frames' = Append(frames, r.fr)
             /\ log' = Append(log, r.log)
             /\ errlog' = Append(errlog, r.errlog)
             /\ stack' = r.stack
             /\ top' = Append(top, [st |-> "pending", err |-> NoErr])
             /\ ctx' = Append(ctx, BeforeWrite(<<>>, r, stack, 0, ms))
        ELSE /\ cur' = Append(cur, -1)
             /\ frames' = Append(frames, <<>>)
             /\ log' = Append(log, <<>>)
             /\ errlog' = Append(errlog, << <<"raise", e>> >>)
             /\ stack' = stack
             /\ top' = Append(top, [st |-> failed, err |-> e])
             /\ ctx' = Append(ctx, <<>>)

\* Engine.dispatch(ctx, finalHandler, extraMiddlewares): builds the chain,
\* composes it and runs composed(ctx) up to its first suspension.
Dispatch(has, ex, fh) ==
  /\ Run(TRUE, AllMiddlewares(has, ex), ~has, fh, "rejected")
  /\ snap' = Append(snap, registry)
  /\ given' = Append(given, ex)
  /\ registry' = RegistryAfterDispatch(has, ex)
  /\ UNCHANGED <<added, got, lastUse, opts, req>>

\* Faulty variant: use() puts the handler in front of the registered ones.
Unshifted(ms, h) == <<h>> \o ms

\* this.middlewares.push(middleware)
Pushed(ms, h) == Append(ms, h)

\* Faulty variant: use() takes any value.
UseErrorNever(h) == NoErr

\* The TypeError use(h) throws, NoErr when it takes the handler.
UseError(h) == IF h = NotFn THEN InvalidErr ELSE NoErr

\* Engine.use(middleware), called by the code that owns the engine.
Use(h) ==
  /\ stack = <<>>
  /\ Len(registry) < MaxReg
  /\ registry' = IF UseError(h) # NoErr THEN registry ELSE Pushed(registry, h)
  /\ added' = IF h = NotFn THEN added ELSE Append(added, h)
  /\ lastUse' = <<h, UseError(h)>>
  /\ UNCHANGED <<opts, req>>
  /\ UNCHANGED <<live, arr, fin, cur, frames, top, stack, snap, given, log, errlog, ctx, got>>

\* Faulty variant: getMiddlewares() returns this.middlewares itself.
ReturnedItself(ms) == [alias |-> TRUE, val |-> ms]

\* What getMiddlewares() returns for this.middlewares = ms: a new array
\* with the elements of ms (alias tells that it is ms itself).
Returned(ms) == [alias |-> FALSE, val |-> ms]

\* The elements of returned array g as the owner reads them.
ArrayOf(g) == IF got[g].alias THEN registry ELSE got[g].val

\* Engine.getMiddlewares(), called by the code that owns the engine.  at
\* and inflight are history: the handlers registered at the time of the
\* call, and the executions pending when the owner wrote into the array
\* (none yet).
GetMiddlewares ==
  /\ stack = <<>>
  /\ Len(got) < MaxGot
  /\ got' = Append(got, [alias |-> Returned(registry).alias,
                         val |-> Returned(registry).val,
                         at |-> added, touched |-> FALSE, inflight |-> {}])
  /\ UNCHANGED <<registry, live, arr, fin, cur, frames, top, stack, added, snap,
                 given, log, errlog, ctx, lastUse, opts, req>>

\* What the owner's code does to an array it got: push, pop, or replacing
\* the first element.
Mutated(ms, op) ==
  CASE op = "push" -> Append(ms, "slow")
    [] op = "pop"  -> IF ms = <<>> THEN ms ELSE Pop(ms)
    [] op = "set"  -> IF ms = <<>> THEN ms ELSE [ms EXCEPT ![1] = NotFn]

\* The owner writes into returned array g (once per array).
MutateReturned(g, op) ==
  /\ stack = <<>>
  /\ ~got[g].touched
  /\ got' = [got EXCEPT ![g] =
               [@ EXCEPT !.val = IF got[g].alias THEN @ ELSE Mutated(@, op),
                         !.touched = TRUE,
                         !.inflight = {d \in Execs : top[d].st = "pending"}]]
  /\ registry' = IF got[g].alias THEN Mutated(registry, op) ELSE registry
  /\ UNCHANGED <<live, arr, fin, cur, frames, top, stack, added, snap, given,
                 log, errlog, ctx, lastUse, opts, req>>

\* Faulty variant: the constructor keeps the caller's array as its registry.
ConstructedShared(seed) ==
  [alias |-> TRUE, val |-> seed, mine |-> seed, writes |-> 0]

\* new MiddlewareEngine({middlewares: seed}): the registry is a fresh array
\* with the elements of seed; the caller keeps its own array (val). mine
\* and writes are history: what the caller's own writes made of its array,
\* and how many there were.
Constructed(seed) ==
  [alias |-> FALSE, val |-> seed, mine |-> seed, writes |-> 0]

\* The caller's array as the caller reads it.
OptionsArray == IF opts.alias THEN registry ELSE opts.val

\* The caller writes into the array it gave to the constructor.
MutateOptions(op) ==
  /\ stack = <<>>
  /\ opts.writes < MaxWrites
  /\ opts' = [opts EXCEPT !.val = IF opts.alias THEN @ ELSE Mutated(@, op),
                          !.mine = Mutated(@, op),
                          !.writes = @ + 1]
  /\ registry' = IF opts.alias THEN Mutated(registry, op) ELSE registry
  /\ UNCHANGED <<live, arr, fin, cur, frames, top, stack, added, snap, given,
                 log, errlog, ctx, got, lastUse, req>>

\* ------------------------------------------------- the fetch adapter
\* A RequestConfig: url is relative or absolute, timeout in milliseconds,
\* data is the payload ("none": undefined).
Configs ==
  [url : {"/a", "http://h/a"}, timeout : {-1, 0, 5}, data : {"none", "obj"}]

NoConfig == [url |-> "", timeout |-> 0, data |-> "none"]
NoSent == [url |-> <<>>, headers |-> {}, body |-> <<>>, signal |-> FALSE]
NoResult == [data |-> <<>>, status |-> 0, config |-> NoConfig]
NoOutcome == [st |-> "pending", err |-> <<"none", 0>>, val |-> NoResult]

\* Before createFetchAdapter.
NoAdapter ==
  [pc |-> "none", icReq |-> "none", icRes |-> "none", base |-> "",
   cfg |-> NoConfig, processed |-> NoConfig, sent |-> NoSent,
   timer |-> "none", aborted |-> FALSE, status |-> 0, result |-> NoResult,
   out |-> NoOutcome, tr |-> <<>>]

\* The interceptors a FetchAdapterConfig may carry: none, one that returns
\* what it got, one that returns something else, one that fails.
Interceptors == {"none", "same", "edit", "fail"}

\* createFetchAdapter(config).
CreateFetchAdapter(icq, ics, base) ==
  [NoAdapter EXCEPT !.pc = "idle", !.icReq = icq, !.icRes = ics, !.base = base]

\* What interceptors.request returns.
ApplyRequest(kind, c) ==
  IF kind = "edit"
  THEN [url |-> "/b", timeout |-> IF c.timeout > 0 THEN 0 ELSE 5, data |-> "obj"]
  ELSE c

\* What interceptors.response returns.
ApplyResponse(kind, res) ==
  IF kind = "edit" THEN [res EXCEPT !.data = <<"wrapped", res.data>>] ELSE res

\* url.startsWith('http://') || url.startsWith('https://')
IsAbsolute(url) == url \in {"http://h/a"}

\* buildUrl, without the query parameters: <<base, path>>.
BuildUrl(c, base) ==
  IF base # "" /\ ~IsAbsolute(c.url) THEN <<base, c.url>> ELSE <<"", c.url>>

\* processedConfig.timeout && processedConfig.timeout > 0
HasTimeout(c) == c.timeout # 0 /\ c.timeout > 0

\* Faulty variant: the request is built from the configuration as given.
BuiltFromGiven(r, c) ==
  [url |-> BuildUrl(r.cfg, r.base),
   headers |-> IF r.cfg.data # "none" THEN {"Content-Type"} ELSE {},
   body |-> IF r.cfg.data = "none" THEN <<>> ELSE <<"json", r.cfg.data>>,
   signal |-> HasTimeout(r.cfg)]

\* The url and the RequestInit handed to fetch for configuration c.
Built(r, c) ==
  [url |-> BuildUrl(c, r.base),
   headers |-> IF c.data # "none" THEN {"Content-Type"} ELSE {},
   body |-> IF c.data = "none" THEN <<>> ELSE <<"json", c.data>>,
   signal |-> HasTimeout(c)]

\* From the processed configuration to the call of fetch, in one go: build
\* the request, arm the timer, call fetch.
Proceed(r, c) ==
  [r EXCEPT !.pc = "fetch", !.processed = c, !.sent = Built(r, c),
            !.timer = IF HasTimeout(c) THEN "pending" ELSE "none",
            !.tr = @ \o <<"build">>
                     \o (IF HasTimeout(c) THEN <<"arm">> ELSE <<>>)
                     \o <<"fetch">>]

\* Faulty variant: the timer is left as it is.
FinallySkipped(r) == r

\* finally { if (timeoutId) clearTimeout(timeoutId) }
Finally(r) ==
  [r EXCEPT !.timer = IF @ = "pending" THEN "cleared" ELSE @,
            !.tr = IF r.timer # "none" THEN Append(@, "clear") ELSE @]

Rejected(r, err) ==
  [r EXCEPT !.pc = "settled", !.tr = Append(@, "settle"),
            !.out = [st |-> "rejected", err |-> err, val |-> NoResult]]

Resolved(r, res) ==
  [r EXCEPT !.pc = "settled", !.tr = Append(@, "settle"),
            !.out = [st |-> "resolved", err |-> <<"none", 0>>, val |-> res]]

\* response.ok
ResponseOk(status) == status >= 200 /\ status <= 299

engine ==
  <<registry, live, arr, fin, cur, frames, top, stack, added, snap, given, log,
    errlog, ctx, got, lastUse, opts>>

\* adapter.request(cfg), up to its first await.
Request(c) ==
  /\ req.pc = "idle"
  /\ req' = IF req.icReq = "none"
            THEN Proceed([req EXCEPT !.cfg = c], c)
            ELSE [req EXCEPT !.pc = "reqIc", !.cfg = c, !.tr = Append(@, "reqIc")]
  /\ UNCHANGED engine

\* The promise of interceptors.request settles.
RequestIntercepted ==
  /\ req.pc = "reqIc"
  /\ req' = IF req.icReq = "fail"
            THEN Rejected(req, <<"reqIc", 0>>)
            ELSE Proceed(req, ApplyRequest(req.icReq, req.cfg))
  /\ UNCHANGED engine

\* The promise of fetch settles: with a response, or rejected (the network,
\* or the abort signal when it was raised).
FetchSettles ==
  /\ req.pc = "fetch"
  /\ \/ \E status \in {200, 404, 500} :
          req' = IF ResponseOk(status)
                 THEN [req EXCEPT !.pc = "parse", !.status = status,
                                  !.tr = Append(@, "response")]
                 ELSE Rejected(Finally([req EXCEPT !.status = status,
                                                   !.tr = Append(@, "response")]),
                               <<"status", status>>)
     \/ req' = Rejected(Finally(req), <<"network", 0>>)
     \/ /\ req.aborted /\ req.sent.signal
        /\ req' = Rejected(Finally(req), <<"abort", 0>>)
  /\ UNCHANGED engine

\* parseResponseBody settles; the result is built and the response
\* interceptor, if any, is called.
ParseSettles ==
  /\ req.pc = "parse"
  /\ \/ LET res == [data |-> <<"parsed", req.status>>, status |-> req.status,
                    config |-> req.processed]
            r1 == [req EXCEPT !.result = res, !.tr = Append(@, "parsed")]
        IN  req' = IF req.icRes = "none"
                   THEN Resolved(Finally(r1), res)
                   ELSE [r1 EXCEPT !.pc = "resIc", !.tr = Append(@, "resIc")]
     \/ req' = Rejected(Finally(req), <<"body", 0>>)
  /\ UNCHANGED engine

\* The promise of interceptors.response settles.
ResponseIntercepted ==
  /\ req.pc = "resIc"
  /\ req' = IF req.icRes = "fail"
            THEN Rejected(Finally(req), <<"resIc", 0>>)
            ELSE LET res == ApplyResponse(req.icRes, req.result)
                 IN  Resolved(Finally([req EXCEPT !.result = res]), res)
  /\ UNCHANGED engine

\* The timer fires: its callback aborts the controller. It runs between
\* the steps above, never inside one.
TimerFires ==
  /\ req.timer = "pending"
  /\ req' = [req EXCEPT !.timer = "fired", !.aborted = TRUE,
                        !.tr = @ \o <<"fire", "abort">>]
  /\ UNCHANGED engine

\* ------------------------------------------------- steps of a handler
\* Faulty variant: one counter for all executions (the first one's).
CurrentIndexShared(d) == cur[1]

\* currentIndex as dispatch of execution d reads it: the variable declared
\* by that call of composed.
CurrentIndex(d) == cur[d]

\* The frame on top of the stack calls dispatch(index); it awaits the
\* returned promise (awaited) or goes on with its body.
DoCall(index, awaited) ==
  LET d == Top[1]
      i == Top[2]
      r == Advance(d, index, CurrentIndex(d), Chain(d), fin[d], frames[d],
                   Append(log[d], <<"call", index>>), errlog[d], stack)
      f == Frame(d, i)
      f1 == IF awaited
            THEN [f EXCEPT !.st = "await", !.aw = r.prom]
            ELSE [f EXCEPT !.pc = @ + 1]
  IN /\ cur' = [cur EXCEPT ![d] = r.cur]
     /\ frames' = [frames EXCEPT ![d] = PutFrame(r.fr, i, f1)]
     /\ log' = [log EXCEPT ![d] = r.log]
     /\ errlog' = [errlog EXCEPT ![d] = r.errlog]
     /\ stack' = r.stack
     /\ ctx' = [ctx EXCEPT ![d] = BeforeWrite(@, r, stack, index, Chain(d))]
     /\ UNCHANGED <<registry, live, arr, fin, top, added, snap, given, got, lastUse, opts, req>>

Running == stack # <<>> /\ Frame(Top[1], Top[2]).st = "run"
TopOp == OpAt(Frame(Top[1], Top[2]))

SetTopFrame(f) == frames' = [frames EXCEPT ![Top[1]][Top[2] + 1] = f]

\* await next() and try { await next() }
OpNext ==
  /\ Running /\ TopOp \in {"next", "tryNext"}
  /\ DoCall(Top[2] + 1, TRUE)

\* next() whose promise is dropped
OpNextNA ==
  /\ Running /\ TopOp = "nextNA"
  /\ DoCall(Top[2] + 1, FALSE)

\* the continuation of the previous position is dispatch(own index); the
\* handler at position 0 has no earlier continuation and goes on
OpPrev ==
  /\ Running /\ TopOp = "prev"
  /\ IF Top[2] = 0
     THEN /\ SetTopFrame([Frame(Top[1], Top[2]) EXCEPT !.pc = @ + 1])
          /\ UNCHANGED <<registry, live, arr, fin, cur, top, stack, added, snap, given, log, errlog, ctx, got, lastUse, opts, req>>
     ELSE DoCall(Top[2], TRUE)

\* catch (e) { await next() }
OpRetry ==
  /\ Running /\ TopOp = "retry"
  /\ IF Frame(Top[1], Top[2]).caught = NoErr
     THEN /\ SetTopFrame([Frame(Top[1], Top[2]) EXCEPT !.pc = @ + 1])
          /\ UNCHANGED <<registry, live, arr, fin, cur, top, stack, added, snap, given, log, errlog, ctx, got, lastUse, opts, req>>
     ELSE DoCall(Top[2] + 1, TRUE)

\* Faulty variant: the error of the finalHandler is swallowed by dispatch.
ThrowFinalSwallowed(kind) ==
  LET d == Top[1]
      i == Top[2]
      e == NewErr(kind, i, errlog[d])
  IN /\ SetTopFrame(IF kind = "final"
                    THEN [Frame(d, i) EXCEPT !.st = "done"]
                    ELSE [Frame(d, i) EXCEPT !.st = "fail", !.err = e])
     /\ errlog' = [errlog EXCEPT ![d] = Append(@, <<"raise", e>>)]
     /\ stack' = Pop(stack)
     /\ UNCHANGED <<registry, live, arr, fin, cur, top, added, snap, given, log, ctx, got, lastUse, opts, req>>

\* Faulty variant: an error thrown by a catch block is dropped and the error
\* that was caught goes on.
ThrowKeepsCaught(kind) ==
  LET d == Top[1]
      i == Top[2]
      e == NewErr(kind, i, errlog[d])
  IN /\ SetTopFrame([Frame(d, i) EXCEPT
           !.st = "fail", !.err = IF kind = "cleanup" THEN Frame(d, i).caught ELSE e])
     /\ errlog' = [errlog EXCEPT ![d] = Append(@, <<"raise", e>>)]
     /\ stack' = Pop(stack)
     /\ UNCHANGED <<registry, live, arr, fin, cur, top, added, snap, given, log,
                    ctx, got, lastUse, opts, req>>

\* throw new Error(...)
Throw(kind) ==
  LET d == Top[1]
      i == Top[2]
      e == NewErr(kind, i, errlog[d])
  IN /\ SetTopFrame([Frame(d, i) EXCEPT !.st = "fail", !.err = e])
     /\ errlog' = [errlog EXCEPT ![d] = Append(@, <<"raise", e>>)]
     /\ stack' = Pop(stack)
     /\ UNCHANGED <<registry, live, arr, fin, cur, top, added, snap, given, log, ctx, got, lastUse, opts, req>>

OpThrow ==
  /\ Running /\ TopOp = "throw"
  /\ Throw(IF Frame(Top[1], Top[2]).h = "f_fail" THEN "final" ELSE "handler")

\* catch (e) { throw new Error(...) }
OpCleanup ==
  /\ Running /\ TopOp = "cleanup"
  /\ IF Frame(Top[1], Top[2]).caught = NoErr
     THEN /\ SetTopFrame([Frame(Top[1], Top[2]) EXCEPT !.pc = @ + 1])
          /\ UNCHANGED <<registry, live, arr, fin, cur, top, stack, added, snap, given, log, errlog, ctx, got, lastUse, opts, req>>
     ELSE Throw("cleanup")

\* the 'after' code
OpPost ==
  /\ Running /\ TopOp = "post"
  /\ SetTopFrame([Frame(Top[1], Top[2]) EXCEPT !.pc = @ + 1])
  /\ log' = [log EXCEPT ![Top[1]] = Append(@, <<"post", Top[2]>>)]
  /\ ctx' = [ctx EXCEPT ![Top[1]] = WriteCtx(@, CtxArg(Top[2]), <<"post", Top[2]>>)]
  /\ UNCHANGED <<registry, live, arr, fin, cur, top, stack, added, snap, given, errlog, got, lastUse, opts, req>>

\* await work of the handler's own: the frame leaves the stack
OpWork ==
  /\ Running /\ TopOp = "work"
  /\ SetTopFrame([Frame(Top[1], Top[2]) EXCEPT !.st = "await", !.aw = AwaitWork])
  /\ stack' = Pop(stack)
  /\ UNCHANGED <<registry, live, arr, fin, cur, top, added, snap, given, log, errlog, ctx, got, lastUse, opts, req>>

\* engine.use(...) from inside a handler
OpUse ==
  /\ Running /\ TopOp = "use"
  /\ SetTopFrame([Frame(Top[1], Top[2]) EXCEPT !.pc = @ + 1])
  /\ registry' = Pushed(registry, "std")
  /\ added' = Append(added, "std")
  /\ lastUse' = <<"std", UseError("std")>>
  /\ UNCHANGED <<opts, req>>
  /\ UNCHANGED <<live, arr, fin, cur, top, stack, snap, given, log, errlog, ctx, got>>

\* Faulty variant: when a handler returns, dispatch goes on to the next position
\* by itself, whether or not the handler called next().
ReturnFallsThrough ==
  /\ Running /\ TopOp = "ret"
  /\ LET d == Top[1]
         i == Top[2]
         fs == [frames[d] EXCEPT ![i + 1].st = "done"]
         r == Advance(d, i + 1, cur[d], Chain(d), fin[d], fs, log[d], errlog[d],
                      Pop(stack))
     IN IF IsHandler(Frame(d, i).h)
        THEN /\ cur' = [cur EXCEPT ![d] = r.cur]
             /\ frames' = [frames EXCEPT ![d] = r.fr]
             /\ log' = [log EXCEPT ![d] = r.log]
             /\ errlog' = [errlog EXCEPT ![d] = r.errlog]
             /\ stack' = r.stack
             /\ ctx' = [ctx EXCEPT ![d] = BeforeWrite(@, r, Pop(stack), i + 1, Chain(d))]
        ELSE /\ frames' = [frames EXCEPT ![d] = fs]
             /\ stack' = Pop(stack)
             /\ UNCHANGED <<cur, log, errlog, ctx>>
  /\ UNCHANGED <<registry, live, arr, fin, top, added, snap, given, got, lastUse, opts, req>>

\* the body returns: the promise of the frame resolves
Return ==
  /\ Running /\ TopOp = "ret"
  /\ SetTopFrame([Frame(Top[1], Top[2]) EXCEPT !.st = "done"])
  /\ stack' = Pop(stack)
  /\ UNCHANGED <<registry, live, arr, fin, cur, top, added, snap, given, log, errlog, ctx, got, lastUse, opts, req>>

\* the callee gave control back and the caller is at its await
Yield ==
  /\ stack # <<>> /\ Frame(Top[1], Top[2]).st = "await"
  /\ stack' = Pop(stack)
  /\ UNCHANGED <<registry, live, arr, fin, cur, frames, top, added, snap, given, log, errlog, ctx, got, lastUse, opts, req>>

\* Faulty variant: a rejection never wakes the frame that awaits it.
ReadyResolvedOnly(d, f) ==
  \/ f.aw.k = "work"
  \/ f.aw.k = "frame" /\ HasFrame(d, f.aw.j) /\ Frame(d, f.aw.j).st = "done"

\* The promise frame f of execution d awaits has settled.
Ready(d, f) ==
  \/ f.aw.k \in {"work", "rej"}
  \/ f.aw.k = "frame" /\ HasFrame(d, f.aw.j) /\ Settled(Frame(d, f.aw.j))

\* The error the awaited promise rejected with, NoErr when it resolved.
Outcome(d, f) ==
  IF f.aw.k = "rej" THEN f.aw.e
  ELSE IF f.aw.k = "frame" /\ Frame(d, f.aw.j).st = "fail" THEN Frame(d, f.aw.j).err
  ELSE NoErr

\* A suspended frame goes on after its await resolved.
ResumeOk(d, i) ==
  /\ stack = <<>> /\ HasFrame(d, i)
  /\ Frame(d, i).st = "await" /\ Ready(d, Frame(d, i))
  /\ Outcome(d, Frame(d, i)) = NoErr
  /\ frames' = [frames EXCEPT ![d][i + 1] =
                  [@ EXCEPT !.st = "run", !.aw = NoAwait, !.pc = @ + 1]]
  /\ stack' = <<<<d, i>>>>
  /\ UNCHANGED <<registry, live, arr, fin, cur, top, added, snap, given, log, errlog, ctx, got, lastUse, opts, req>>

\* Faulty variant: when a handler catches the rejection of its continuation
\* the counter falls back to the position of that handler.
ResumeErrResets(d, i) ==
  /\ stack = <<>> /\ HasFrame(d, i)
  /\ Frame(d, i).st = "await" /\ Ready(d, Frame(d, i))
  /\ Outcome(d, Frame(d, i)) # NoErr
  /\ LET f == Frame(d, i)
         e == Outcome(d, f)
     IN IF OpAt(f) = "tryNext"
        THEN /\ frames' = [frames EXCEPT ![d][i + 1] =
                  [f EXCEPT !.st = "run", !.aw = NoAwait, !.pc = @ + 1, !.caught = e]]
             /\ errlog' = [errlog EXCEPT ![d] = Append(@, <<"catch", e>>)]
             /\ stack' = <<<<d, i>>>>
             /\ cur' = [cur EXCEPT ![d] = i]
        ELSE /\ frames' = [frames EXCEPT ![d][i + 1] =
                  [f EXCEPT !.st = "fail", !.aw = NoAwait, !.err = e]]
             /\ errlog' = errlog
             /\ stack' = stack
             /\ cur' = cur
  /\ UNCHANGED <<registry, live, arr, fin, top, added, snap, given, log, ctx,
                 got, lastUse, opts, req>>

\* Faulty variant: the rejection of the awaited call passes by the try block
\* of the handler.
ResumeErrUncaught(d, i) ==
  /\ stack = <<>> /\ HasFrame(d, i)
  /\ Frame(d, i).st = "await" /\ Ready(d, Frame(d, i))
  /\ Outcome(d, Frame(d, i)) # NoErr
  /\ frames' = [frames EXCEPT ![d][i + 1] =
       [@ EXCEPT !.st = "fail", !.aw = NoAwait, !.err = Outcome(d, Frame(d, i))]]
  /\ UNCHANGED <<registry, live, arr, fin, cur, top, stack, added, snap, given,
                 log, errlog, ctx, got, lastUse, opts, req>>

\* A suspended frame whose await rejected: the error is caught by the
\* frame's try block, or the frame rejects with the same error.
ResumeErr(d, i) ==
  /\ stack = <<>> /\ HasFrame(d, i)
  /\ Frame(d, i).st = "await" /\ Ready(d, Frame(d, i))
  /\ Outcome(d, Frame(d, i)) # NoErr
  /\ LET f == Frame(d, i)
         e == Outcome(d, f)
     IN IF OpAt(f) = "tryNext"
        THEN /\ frames' = [frames EXCEPT ![d][i + 1] =
                  [f EXCEPT !.st = "run", !.aw = NoAwait, !.pc = @ + 1, !.caught = e]]
             /\ errlog' = [errlog EXCEPT ![d] = Append(@, <<"catch", e>>)]
             /\ stack' = <<<<d, i>>>>
        ELSE /\ frames' = [frames EXCEPT ![d][i + 1] =
                  [f EXCEPT !.st = "fail", !.aw = NoAwait, !.err = e]]
             /\ errlog' = errlog
             /\ stack' = stack
  /\ UNCHANGED <<registry, live, arr, fin, cur, top, added, snap, given, log, ctx, got, lastUse, opts, req>>

\* Faulty variant: the promise resolves as soon as dispatch(0) was called.
SettleEarly(d) ==
  /\ stack = <<>>
  /\ top[d].st = "pending"
  /\ HasFrame(d, 0)
  /\ top' = [top EXCEPT ![d] = SettleTop([Frame(d, 0) EXCEPT !.st = "done"])]
  /\ UNCHANGED <<registry, live, arr, fin, cur, frames, stack, added, snap, given,
                 log, errlog, ctx, got, lastUse, opts, req>>

\* composed awaits dispatch(0), Engine.dispatch awaits composed.
Settle(d) ==
  /\ stack = <<>>
  /\ top[d].st = "pending"
  /\ HasFrame(d, 0) /\ Settled(Frame(d, 0))
  /\ top' = [top EXCEPT ![d] = SettleTop(Frame(d, 0))]
  /\ UNCHANGED <<registry, live, arr, fin, cur, frames, stack, added, snap, given, log, errlog, ctx, got, lastUse, opts, req>>

\* ------------------------------------------------------ specifications
FrameIdx(d) == 0..(Len(frames[d]) - 1)

CoreStep ==
  \/ OpNext \/ OpThrow \/ OpPost \/ OpWork \/ Return \/ Yield
  \/ \E d \in Execs : \E i \in FrameIdx(d) : ResumeOk(d, i)
  \/ \E d \in Execs : \E i \in FrameIdx(d) : ResumeErr(d, i)
  \/ \E d \in Execs : Settle(d)

InitEngine(seed) ==
  /\ registry = seed /\ added = seed
  /\ live = <<>> /\ arr = <<>> /\ fin = <<>> /\ cur = <<>> /\ frames = <<>>
  /\ top = <<>> /\ stack = <<>> /\ snap = <<>> /\ given = <<>>
  /\ log = <<>> /\ errlog = <<>> /\ ctx = <<>>
  /\ got = <<>> /\ lastUse = <<"none", NoErr>>
  /\ opts = Constructed(seed)
  /\ req = NoAdapter

\* The Engine: a seeded registry, use() by the owner and by handlers,
\* dispatches that overlap.
Init == \E seed \in SeqUpTo(EngineKinds \cup {NotFn}, MaxSeed) : InitEngine(seed)

EngineDispatch ==
  /\ Len(top) < MaxDispatch
  /\ \E has \in BOOLEAN :
       \E ex \in SeqUpTo(EngineKinds \cup {NotFn}, IF has THEN MaxExtra ELSE 0) :
         \E fh \in Finals : Dispatch(has, ex, fh)

EngineUse == \E h \in EngineKinds \cup {NotFn} : Use(h)

Next == EngineDispatch \/ EngineUse \/ OpUse \/ CoreStep

Spec == Init /\ [][Next]_vars

\* One composed chain over every kind of handler: the engine has no
\* registered handler and the chain is the array given to the call.
InitCompose == InitEngine(<<>>)

\* composeMiddlewares(ms, fh)(ctx): ms is an array of up to MaxChain
\* elements, or a value that is not an array.
ComposeRun ==
  /\ Len(top) < 1
  /\ \E isArr \in BOOLEAN :
       \E ms \in (IF isArr THEN SeqUpTo(ComposeKinds \cup {NotFn}, MaxChain) ELSE {<<>>}) :
         \E fh \in Finals :
           /\ Run(isArr, ms, FALSE, fh, "thrown")
           /\ snap' = Append(snap, registry)
           /\ given' = Append(given, IF isArr THEN ms ELSE <<NotArray>>)
           /\ UNCHANGED <<registry, added, got, lastUse, opts, req>>

NextCompose ==
  ComposeRun \/ OpNextNA \/ OpPrev \/ OpRetry \/ OpCleanup \/ CoreStep

SpecCompose == InitCompose /\ [][NextCompose]_vars

\* What the JavaScript engine does by itself: running code runs on, and a
\* continuation whose awaited promise has settled is resumed.
EventLoop == OpNextNA \/ OpPrev \/ OpRetry \/ OpCleanup \/ CoreStep

\* The same chain, with the engine never leaving runnable code aside for
\* ever.
SpecComposeLive == InitCompose /\ [][NextCompose]_vars /\ WF_vars(EventLoop)

\* The Engine and the code that owns it: the owner registers handlers,
\* reads the registry with getMiddlewares(), writes into the arrays it
\* got, and dispatches; the writes fall before, during and after a dispatch.
OwnerDispatch ==
  /\ Len(top) < MaxOwnerDispatch
  /\ \E has \in BOOLEAN :
       \E ex \in SeqUpTo(EngineKinds \cup {NotFn}, IF has THEN MaxExtra ELSE 0) :
         \E fh \in Finals : Dispatch(has, ex, fh)

OwnerMutate ==
  \E g \in 1..Len(got) : \E op \in {"push", "pop", "set"} : MutateReturned(g, op)

NextOwner ==
  OwnerDispatch \/ EngineUse \/ GetMiddlewares \/ OwnerMutate \/ OpUse \/ CoreStep

SpecOwner == Init /\ [][NextOwner]_vars

\* The Engine and the code that constructed it: the caller goes on writing
\* into the array it passed as options.middlewares, registers handlers and
\* dispatches.
OptionsMutate == \E op \in {"push", "pop", "set"} : MutateOptions(op)

NextOptions == OwnerDispatch \/ EngineUse \/ OptionsMutate \/ OpUse \/ CoreStep

SpecOptions == Init /\ [][NextOptions]_vars

\* The fetch adapter serving one request: an adapter is created with some
\* interceptors and base URL, request() is called with some configuration,
\* and the interceptors, fetch, the body and the timer go their ways.
AdapterCreate ==
  /\ req.pc = "none"
  /\ \E icq \in Interceptors : \E ics \in Interceptors : \E base \in {"", "http://b"} :
       req' = CreateFetchAdapter(icq, ics, base)
  /\ UNCHANGED engine

AdapterRequest == \E c \in Configs : Request(c)

NextFetch ==
  \/ AdapterCreate \/ AdapterRequest \/ RequestIntercepted \/ FetchSettles
  \/ ParseSettles \/ ResponseIntercepted \/ TimerFires

SpecFetch == InitCompose /\ [][NextFetch]_vars

\* ------------------------------------------------- reading the history
\* Where event e stands in the trace of the request.
At(e) == {k \in 1..Len(req.tr) : req.tr[k] = e}

IdxOf(lg, t) == {k \in 1..Len(lg) : lg[k][1] = t}
Count(lg, ev) == Cardinality({k \in 1..Len(lg) : lg[k] = ev})
Occurs(lg, ev) == \E k \in 1..Len(lg) : lg[k] = ev
IsSettled(d) == top[d].st # "pending"

\* 'before' code runs by strictly increasing position.
PreIncreasing(lg) ==
  \A k1, k2 \in IdxOf(lg, "pre") : k1 < k2 => lg[k1][2] < lg[k2][2]

\* 'after' code runs by strictly decreasing position.
PostDecreasing(lg) ==
  \A k1, k2 \in IdxOf(lg, "post") : k1 < k2 => lg[k1][2] > lg[k2][2]

\* The finalHandler runs at most once, after the 'before' code of the last
\* handler and before that handler's 'after' code.
FinalPlaced(lg) ==
  /\ Cardinality(IdxOf(lg, "final")) <= 1
  /\ \A k \in IdxOf(lg, "final") :
       lg[k][2] > 0 =>
         /\ \E k1 \in 1..(k - 1) : lg[k1] = <<"pre", lg[k][2] - 1>>
         /\ \A k2 \in 1..k : lg[k2] # <<"post", lg[k][2] - 1>>

\* Handlers that call their continuation without awaiting the promise.
Detaching(h) == \E k \in 1..Len(Script(h)) : Script(h)[k] = "nextNA"

\* Every handler of the chain awaits the promise of each continuation call.
AwaitsAll(d) == \A k \in 1..Len(Chain(d)) : ~Detaching(Chain(d)[k])

\* ---------------------------------------------------------------- C1
\* C1 as stated: in every execution the 'before' code runs in strictly
\* increasing position order, the 'after' code in strictly decreasing
\* position order, and the finalHandler at most once, between the 'before'
\* and the 'after' code of the last handler.
C1_AnyHandlers ==
  \A d \in Execs :
    PreIncreasing(log[d]) /\ PostDecreasing(log[d]) /\ FinalPlaced(log[d])

\* C1 amended: the order of the 'before' code and the place of the
\* finalHandler hold for every chain; the 'after' code runs in strictly
\* decreasing position order when every handler that calls its continuation
\* awaits the returned promise.
C1_OnionOrder ==
  \A d \in Execs :
    /\ PreIncreasing(log[d])
    /\ FinalPlaced(log[d])
    /\ AwaitsAll(d) => PostDecreasing(log[d])

C1_Witness ==
  \E d \in Execs :
    /\ top[d].st = "resolved" /\ AwaitsAll(d)
    /\ Len(Chain(d)) = 3 /\ fin[d] = "ok"
    /\ Chain(d)[2] = "catch"
    /\ Occurs(log[d], <<"final", 3>>)
    /\ \A i \in 0..2 : Occurs(log[d], <<"post", i>>)

\* ---------------------------------------------------------------- C4
\* C4: whatever the handlers do with their continuations, a call of a
\* continuation advances the chain only if no continuation of that or a
\* greater position was invoked before, so no position advances twice and
\* every handler body and the finalHandler is started at most once.
C4_AdvanceOnce ==
  \A d \in Execs :
    /\ \A k \in IdxOf(log[d], "adv") :
         \A k0 \in 1..(k - 1) :
           log[d][k0][1] \in {"adv", "dup"} => log[d][k0][2] < log[d][k][2]
    /\ \A k1, k2 \in IdxOf(log[d], "pre") :
         k1 # k2 => log[d][k1][2] # log[d][k2][2]
    /\ Cardinality(IdxOf(log[d], "final")) <= 1

\* A continuation was invoked again by a handler below a detached call.
C4_Witness ==
  \E d \in Execs :
    /\ IsSettled(d) /\ ~AwaitsAll(d)
    /\ \E k \in IdxOf(log[d], "dup") : log[d][k][2] >= 2
    /\ Occurs(log[d], <<"final", Len(Chain(d))>>)

\* A handler that awaits every continuation it calls and catches nothing:
\* a rejection of the awaited call rejects the handler with the same error.
Transparent(h) ==
  \A k \in 1..Len(Script(h)) : Script(h)[k] \notin {"tryNext", "nextNA"}

\* The handlers of execution d at the positions below i are transparent.
TransparentBelow(d, i) ==
  \A j \in 0..(i - 1) : HasFrame(d, j) => Transparent(Frame(d, j).h)

Raised(d, kind) ==
  {errlog[d][k][2] : k \in {k0 \in 1..Len(errlog[d]) :
      errlog[d][k0][1] = "raise" /\ errlog[d][k0][2][1] = kind}}

ErrorsOf(d, t) ==
  {errlog[d][k][2] : k \in {k0 \in 1..Len(errlog[d]) : errlog[d][k0][1] = t}}
Uncaught(d) == ErrorsOf(d, "raise") \ ErrorsOf(d, "catch")

\* The promise of execution d rejected with exactly the uncaught errors:
\* with the one there is, or it resolved and there is none.
Surfaced(d) ==
  Uncaught(d) = IF top[d].st \in {"rejected", "thrown"} THEN {top[d].err} ELSE {}

\* ---------------------------------------------------------------- C9
\* C9 as stated: in every execution, once the promise returned by dispatch
\* has settled, every error raised by a handler, the finalHandler or the
\* guard and caught by no handler is the error the promise rejected with
\* (the same object), and the promise resolved only if there is none.
C9_NeverLost == \A d \in Execs : IsSettled(d) => Surfaced(d)

\* C9 amended: the same, for the executions in which every handler awaits
\* the promise of each continuation call it makes.
C9_SurfacesWhenAwaited ==
  \A d \in Execs : (IsSettled(d) /\ AwaitsAll(d)) => Surfaced(d)

\* An error was caught and replaced by a handler, and the new one surfaced.
C9_Witness ==
  \E d \in Execs :
    /\ Chain(d) = <<"std", "cleanup", "twice">> /\ fin[d] = "ok"
    /\ top[d].st = "rejected" /\ top[d].err[1] = "cleanup"
    /\ ErrorsOf(d, "catch") # {}

\* ------------------------------------------------------ the Engine
\* The handlers of execution d that were started, by position.
HandlerFrames(d) == {i \in FrameIdx(d) : IsHandler(Frame(d, i).h)}

\* The registered handlers, then the extra handlers of the call.
MergedChain(d) == IF live[d] THEN added ELSE snap[d] \o given[d]

C3_RunsItsSnapshot ==
  \A d \in Execs :
    /\ \A i \in HandlerFrames(d) : i < Len(snap[d]) + Len(given[d])
    /\ \A k \in IdxOf(log[d], "final") :
         log[d][k][2] = Len(snap[d]) + Len(given[d])

\* --------------------------------------------------------------- C10
\* C10: the registry always holds exactly the handlers given to the
\* constructor followed by those given to use(), whatever dispatches ran,
\* and a dispatch called without extra handlers runs registered handlers
\* only.
C10_DispatchKeepsRegistry ==
  /\ registry = added
  /\ \A d \in Execs :
       given[d] = <<>> =>
         \A i \in HandlerFrames(d) :
           i < Len(added) /\ Frame(d, i).h = added[i + 1]

\* A dispatch with extra handlers failed, a later one without ran.
C10_Witness ==
  \E d1, d2 \in Execs :
    /\ d1 < d2 /\ given[d1] = <<"reg">> /\ top[d1].st = "rejected"
    /\ given[d2] = <<>> /\ top[d2].st = "resolved"
    /\ Occurs(log[d1], <<"pre", Len(snap[d1])>>)
    /\ snap[d2] # <<>> /\ Occurs(log[d2], <<"post", 0>>)

\* --------------------------------------------------------------- C11
\* C11: whatever the owner writes into the arrays getMiddlewares() returned,
\* the registry still holds the registered handlers; each returned array is
\* an array of its own that held the registered handlers of the time of
\* the call and keeps them until the owner writes into that very array; and
\* every dispatch, begun before or after the write, runs at each position
\* the handler registered there (then its extra handlers).
C11_ReturnsCopy ==
  /\ registry = added
  /\ \A g \in 1..Len(got) :
       ~got[g].touched => ArrayOf(g) = got[g].at
  /\ \A d \in Execs :
       \A i \in HandlerFrames(d) :
         i < Len(MergedChain(d)) /\ Frame(d, i).h = MergedChain(d)[i + 1]

\* Two arrays were returned; the owner changed one while a dispatch was in
\* flight, the other still reads as returned, and the dispatch ran through.
C11_Witness ==
  \E g1, g2 \in 1..Len(got) : \E d \in Execs :
    /\ got[g1].touched /\ ArrayOf(g1) # got[g1].at /\ d \in got[g1].inflight
    /\ ~got[g2].touched /\ got[g2].at # <<>>
    /\ top[d].st = "resolved" /\ Occurs(log[d], <<"post", 0>>)

\* a is an initial part of b.
IsPrefix(a, b) == Len(a) <= Len(b) /\ SubSeq(b, 1, Len(a)) = a

\* --------------------------------------------------------------- C12
\* C12: the registry always holds the handlers given to the constructor, in
\* the given order, followed by the handlers of the successful use() calls
\* in call order; and every step of the Engine leaves the registry as it is
\* or appends one handler at its end.
C12_RegistryAppendOnly ==
  /\ [](registry = added)
  /\ [][IsPrefix(registry, registry') /\ Len(registry') <= Len(registry) + 1]_vars

\* A seeded registry that grew by a use() of the owner and by a use() of a
\* handler during a dispatch, after the owner wrote into a returned array.
C12_Witness ==
  /\ registry = <<"reg", "slow", "std">>
  /\ \E g \in 1..Len(got) : got[g].touched /\ got[g].at = <<"reg">>
  /\ \E d \in Execs : top[d].st = "resolved"

\* --------------------------------------------------------------- C13
\* C13: a step that calls use(h) with a value that is not a function throws
\* the TypeError and leaves the registry as it was; one that calls it with
\* a function throws nothing and appends exactly h at the end of the
\* registry; and the call changes nothing else of the Engine or of the
\* executions (the registry changes by use() only).
C13_UseValidates ==
  [][(lastUse' # lastUse \/ registry' # registry) =>
       /\ IF lastUse'[1] = NotFn
          THEN lastUse'[2] = InvalidErr /\ registry' = registry
          ELSE lastUse'[2] = NoErr /\ registry' = Append(registry, lastUse'[1])
       /\ UNCHANGED <<live, arr, fin, cur, top, stack, snap, given, log, errlog,
                      ctx, got>>]_vars

\* The registry was empty when the owner read it, a use() with a function
\* appended it, and the latest use(), with a value that is no function,
\* threw.
C13_Witness ==
  /\ lastUse = <<NotFn, InvalidErr>>
  /\ registry = <<"slow">>
  /\ \E g \in 1..Len(got) : got[g].at = <<>>

\* --------------------------------------------------------------- C14
\* C14: when the argument of composeMiddlewares is not an array, or is an
\* array with an element that is not a function, the call throws its
\* TypeError at once (it is never pending), and no handler, no finalHandler
\* and no dispatch step of it ever runs.
C14_InvalidNeverRuns ==
  \A d \in Execs :
    (given[d] = <<NotArray>> \/ \E k \in 1..Len(given[d]) : given[d][k] = NotFn)
    => /\ top[d].st = "thrown"
       /\ top[d].err = IF given[d] = <<NotArray>> THEN NotArrayErr ELSE InvalidErr
       /\ log[d] = <<>> /\ frames[d] = <<>> /\ ctx[d] = <<>>

\* A chain whose last element is not a function, after two handlers.
C14_Witness ==
  \E d \in Execs :
    /\ given[d] = <<"std", "nonext", NotFn>> /\ fin[d] = "ok"
    /\ top[d] = [st |-> "thrown", err |-> InvalidErr]

\* --------------------------------------------------------------- C15
\* C15: with an empty handler array, the execution consists of the one
\* dispatch step at position 0, which calls the finalHandler once when
\* there is one; the context holds the finalHandler's own write and nothing
\* else; with no finalHandler nothing is written and nothing is raised; and
\* the promise resolves unless the finalHandler threw.
C15_EmptyChain ==
  \A d \in Execs :
    given[d] = <<>>
    => /\ log[d] = IF fin[d] = "none" THEN << <<"adv", 0>> >>
                   ELSE << <<"adv", 0>>, <<"final", 0>> >>
       /\ ctx[d] = IF fin[d] = "none" THEN <<>> ELSE << <<"final", 0>> >>
       /\ fin[d] # "fail" => errlog[d] = <<>>
       /\ IsSettled(d) =>
            top[d].st = IF fin[d] = "fail" THEN "rejected" ELSE "resolved"
       /\ registry = <<>>

C15_Witness ==
  \E d \in Execs :
    /\ given[d] = <<>> /\ fin[d] = "ok" /\ top[d].st = "resolved"
    /\ Count(log[d], <<"final", 0>>) = 1

\* The number of dispatch steps of log lg before its k-th event.
AdvBefore(lg, k) == Cardinality({k0 \in IdxOf(lg, "adv") : k0 < k})

IsWrite(ev) == ev[1] \in {"pre", "post", "final"}
Writes(lg) == SelectSeq(lg, IsWrite)

C19_FinalExactlyOnce ==
  \A d \in Execs :
    frames[d] # <<>> =>
      LET n == Len(Chain(d))
          lg == log[d]
      IN /\ Cardinality(IdxOf(lg, "final")) <= 1
         /\ \A k \in IdxOf(lg, "final") :
              /\ lg[k][2] = n /\ fin[d] # "none"
              /\ n > 0 => k >= 3 /\ lg[k - 2] = <<"call", n>>
         /\ (fin[d] # "none" /\ n > 0 /\ Occurs(lg, <<"call", n>>))
            => Count(lg, <<"final", n>>) = 1
         /\ (fin[d] # "none" /\ \A i \in 0..(n - 1) : Count(lg, <<"call", i + 1>>) = 1)
            => Count(lg, <<"final", n>>) = 1
         /\ (fin[d] # "none" /\ IdxOf(lg, "final") = {})
            => \E i \in HandlerFrames(d) : ~Occurs(lg, <<"call", i + 1>>)

C19_Witness ==
  \E d \in Execs :
    /\ Chain(d) = <<"std", "std", "std">> /\ fin[d] = "ok"
    /\ top[d].st = "resolved"
    /\ Count(log[d], <<"final", 3>>) = 1
    /\ \A i \in 0..2 : Count(log[d], <<"call", i + 1>>) = 1

C21_RetryIsRefused ==
  /\ [][\A d \in 1..Len(cur) : cur'[d] >= cur[d]]_vars
  /\ [](\A d \in Execs :
         /\ \A k \in IdxOf(log[d], "adv") : log[d][k][2] <= cur[d]
         /\ \A i \in FrameIdx(d) :
              ( /\ Frame(d, i).h = "retry" /\ Frame(d, i).caught # NoErr
                /\ Count(log[d], <<"call", i + 1>>) >= 2 )
              => /\ Occurs(log[d], <<"dup", i + 1>>)
                 /\ \E e \in Raised(d, "proto") : e[2] = i + 1
                 /\ Settled(Frame(d, i)) =>
                      /\ Frame(d, i).st = "fail"
                      /\ Frame(d, i).err \in Raised(d, "proto")
                      /\ Frame(d, i).err[2] = i + 1
                 /\ \A j \in FrameIdx(d) : Count(log[d], <<"pre", j>>) <= 1
                 /\ Cardinality(IdxOf(log[d], "final")) <= 1)

\* The finalHandler threw, the handler above the last one caught the error
\* and called its continuation again.
C21_Witness ==
  \E d \in Execs :
    /\ Chain(d) = <<"std", "retry", "std">> /\ fin[d] = "fail"
    /\ top[d].st = "rejected" /\ top[d].err[1] = "proto" /\ top[d].err[2] = 2
    /\ Frame(d, 1).caught[1] = "final"
    /\ Count(log[d], <<"pre", 2>>) = 1 /\ Count(log[d], <<"final", 3>>) = 1

\* --------------------------------------------------------------- C22
\* C22: a dispatch whose chain (the registry of that moment followed by the
\* extra handlers) holds an element that is not a function, wherever it
\* stands, is rejected with the TypeError from its first state on: no
\* dispatch step, no handler, not even one standing before the bad element,
\* and no finalHandler runs, nothing is written to the context, and the
\* registry keeps the handlers it had.
C22_BadElementRejects ==
  \A d \in Execs :
    (\E k \in 1..Len(snap[d] \o given[d]) : (snap[d] \o given[d])[k] = NotFn)
    => /\ top[d] = [st |-> "rejected", err |-> InvalidErr]
       /\ log[d] = <<>> /\ frames[d] = <<>> /\ ctx[d] = <<>>
       /\ cur[d] = -1
       /\ registry = added /\ IsPrefix(snap[d], registry)

\* A registered handler stands before a bad extra element; an earlier
\* dispatch of the same registry ran that handler.
C22_Witness ==
  \E d1, d2 \in Execs :
    /\ snap[d2] = <<"slow">> /\ given[d2] = <<NotFn>> /\ fin[d2] = "ok"
    /\ top[d2] = [st |-> "rejected", err |-> InvalidErr]
    /\ d1 < d2 /\ snap[d1] = <<"slow">> /\ Occurs(log[d1], <<"pre", 0>>)

\* --------------------------------------------------------------- C23
\* C23: whatever the composition and the execution do (the composition
\* throws, the execution is under way, resolved or rejected), the array
\* given to composeMiddlewares holds the elements it was given, in the
\* order it was given.
C23_InputArrayKept ==
  \A d \in Execs : given[d] # <<NotArray>> => arr[d] = given[d]

\* An execution that ran three handlers and was rejected.
C23_Witness ==
  \E d \in Execs :
    /\ given[d] = <<"std", "twice", "nonext">> /\ arr[d] = given[d]
    /\ top[d].st = "rejected"
    /\ Count(log[d], <<"call", 2>>) = 2

\* --------------------------------------------------------------- C24
\* C24: in an execution whose handlers await every continuation call they
\* make, once the promise has settled every dispatch step, handler body and
\* finalHandler that was started has settled, and from then on no step
\* starts or moves one, logs anything or writes to the context.
C24_NothingRunsAfterSettle ==
  /\ [](\A d \in Execs :
         (IsSettled(d) /\ AwaitsAll(d)) =>
           /\ \A i \in FrameIdx(d) : Settled(Frame(d, i))
           /\ \A k \in 1..Len(stack) : stack[k][1] # d)
  /\ [][\A d \in Execs :
         (IsSettled(d) /\ AwaitsAll(d)) =>
           /\ frames'[d] = frames[d] /\ log'[d] = log[d]
           /\ ctx'[d] = ctx[d] /\ cur'[d] = cur[d] /\ top'[d] = top[d]]_vars

\* A chain that suspended at the finalHandler and unwound through a
\* catching handler.
C24_Witness ==
  \E d \in Execs :
    /\ Chain(d) = <<"catch", "std", "twice">> /\ fin[d] = "ok"
    /\ IsSettled(d) /\ Len(frames[d]) = 4
    /\ \A i \in FrameIdx(d) : Settled(Frame(d, i))

\* --------------------------------------------------------------- C25
\* C25: the handlers and the finalHandler awaiting nothing but their
\* continuations and work that ends, the promise of every execution that
\* was started is eventually resolved or rejected, and once it is, it
\* stays as it settled.
C25_EventuallySettlesOnce ==
  /\ (Len(top) >= 1) ~> (Len(top) >= 1 /\ top[1].st # "pending")
  /\ [][\A d \in Execs : top[d].st # "pending" => top'[d] = top[d]]_vars

\* The promise resolved while a continuation that was not awaited was
\* still on its way; that one ended too.
C25_Witness ==
  \E d \in Execs :
    /\ Chain(d) = <<"std", "detach", "std">> /\ fin[d] = "ok"
    /\ top[d].st = "resolved" /\ Len(frames[d]) = 4
    /\ \A i \in FrameIdx(d) : Settled(Frame(d, i))

\* --------------------------------------------------------------- C26
\* C26: the registry is a copy of the array given to the constructor: it
\* holds the constructor's handlers and those of use(), whatever the caller
\* writes into its array afterwards, the chain of a dispatch is made of
\* that registry, and the caller's array holds what the caller's own
\* writes made of it, whatever use() registers.
C26_ConstructorCopies ==
  /\ registry = added
  /\ OptionsArray = opts.mine
  /\ \A d \in Execs : IsPrefix(snap[d], added)

\* The caller replaced the handler of its one-handler array and pushed
\* another one, a handler was registered with use(), and a dispatch ran the
\* constructor's handler.
C26_Witness ==
  /\ opts.writes = 2 /\ opts.mine = <<NotFn, "slow">>
  /\ OptionsArray = <<NotFn, "slow">>
  /\ registry = <<"slow", "slow">>
  /\ \E d \in Execs : /\ snap[d] = <<"slow">> /\ Occurs(log[d], <<"pre", 0>>)
                       /\ top[d].st = "resolved"

\* --------------------------------------------------------------- C27
\* C27: a timer is armed exactly when the processed configuration has a
\* positive timeout, and before fetch is called; once the request has
\* settled (resolved, or rejected for a non-ok status, a rejection of fetch,
\* an unreadable body or a failing response interceptor) clearTimeout was
\* called before it settled and no timer is pending; the abort comes
\* right after the timer fired, before the request settled and before the
\* timer was cleared.
C27_TimerAlwaysCleared ==
  /\ At("arm") # {} <=> (At("fetch") # {} /\ req.processed.timeout > 0)
  /\ \A a \in At("arm") : \A f \in At("fetch") : a < f
  /\ (req.pc = "settled" /\ At("arm") # {}) =>
        /\ req.timer \in {"cleared", "fired"}
        /\ At("clear") # {}
        /\ \A c \in At("clear") : \A t \in At("settle") : c < t
  /\ req.aborted <=> At("abort") # {}
  /\ \A k \in At("abort") :
        /\ k > 1 /\ req.tr[k - 1] = "fire"
        /\ \A t \in At("settle") : k < t
        /\ \A c \in At("clear") : k < c

\* The timer fired while fetch was pending, fetch rejected with the abort,
\* and the request rejected with it after clearTimeout.
C27_Witness ==
  /\ req.pc = "settled" /\ req.out.st = "rejected" /\ req.out.err = <<"abort", 0>>
  /\ req.tr = <<"build", "arm", "fetch", "fire", "abort", "clear", "settle">>
  /\ req.timer = "fired"

\* --------------------------------------------------------------- C28
\* C28: the request interceptor, when there is one, is called first, and
\* what fetch receives (url, headers, body, signal) is built from the
\* configuration it returned; the response interceptor is called only
\* after a response with an ok status arrived and its body was parsed;
\* with a status that is not ok the request is rejected with an error
\* carrying that status, and neither the body is parsed nor the response
\* interceptor called.
C28_InterceptorsInOrder ==
  /\ At("reqIc") # {} <=> (req.icReq # "none" /\ req.pc \notin {"none", "idle"})
  /\ \A k \in At("reqIc") :
        k = 1 /\ \A b \in At("build") \cup At("fetch") : k < b
  /\ At("fetch") # {} =>
        LET c == ApplyRequest(req.icReq, req.cfg)
        IN  /\ req.processed = c
            /\ req.sent.url = BuildUrl(c, req.base)
            /\ req.sent.body = (IF c.data = "none" THEN <<>> ELSE <<"json", c.data>>)
            /\ req.sent.signal = (c.timeout > 0)
            /\ \A b \in At("build") : \A f \in At("fetch") : b < f
  /\ \A k \in At("resIc") :
        /\ req.status \in 200..299
        /\ \E q \in At("response") : \E p \in At("parsed") : q < p /\ p < k
  /\ (req.status # 0 /\ req.status \notin 200..299) =>
        /\ req.pc = "settled" /\ req.out.st = "rejected"
        /\ req.out.err = <<"status", req.status>>
        /\ At("resIc") = {} /\ At("parsed") = {}

\* Both interceptors are set, the request interceptor rewrote the
\* configuration, fetch got the rewritten one, and the response had
\* status 404.
C28_Witness ==
  /\ req.icReq = "edit" /\ req.icRes = "edit" /\ req.base = "http://b"
  /\ req.cfg.url = "/a" /\ req.cfg.data = "none"
  /\ req.sent.url = <<"http://b", "/b">> /\ req.sent.body = <<"json", "obj">>
  /\ req.status = 404 /\ req.out.err = <<"status", 404>>

\* --------------------------------------------------------------- C29
\* C29: in every execution of Engine.dispatch, while handlers are being
\* registered and the caller writes into the array it constructed the
\* engine with, every call of dispatch(index) has an index from 0 to the
\* length of the chain, no call finds the position without a handler, and
\* an execution that resolved either ran the final step or has a handler
\* that returned without calling its continuation.
C29_AdvanceWithinChain ==
  \A d \in Execs :
    /\ \A k \in 1..Len(log[d]) :
          log[d][k][1] \in {"call", "adv", "dup"} =>
            log[d][k][2] \in 0..Len(Chain(d))
    /\ \A i \in FrameIdx(d) : Frame(d, i).h # "missing"
    /\ top[d].st = "resolved" =>
          \E i \in FrameIdx(d) :
            /\ Frame(d, i).st = "done"
            /\ \/ ~IsHandler(Frame(d, i).h)
               \/ ~Occurs(log[d], <<"call", i + 1>>)

\* The registry grew while its first handler was at work; the execution
\* went through the new handler to the finalHandler and resolved.
C29_Witness ==
  \E d \in Execs :
    /\ live[d] /\ snap[d] = <<"slow">> /\ Chain(d) = <<"slow", "slow">>
    /\ Len(frames[d]) = 3 /\ Frame(d, 2).h = "f_ok"
    /\ log[d][Len(log[d])][1] = "post"
    /\ top[d].st = "resolved"

====
